---- MODULE Spec2Model ----
(***************************************************************************)
(* Model of the testpoint viewer of src/main.py: the persisted list of     *)
(* source paths (ConfigManager, testpoints.json), the in-memory mapping    *)
(* testpoint_data, the list box and the handlers that change them          *)
(* (select_file/load_testpoints, delete_selected_testpoints, the restart   *)
(* made of on_closing and __init__/load_saved_testpoints).                 *)
(*                                                                         *)
(* Text is modelled as a sequence of one-character strings, so that        *)
(* os.path.splitext, the extension regexes, sorted() and                   *)
(* format_testpoint_name are computed character by character.  The module  *)
(* is written in ASCII: the CJK characters of the source are the tokens    *)
(* "ce" "shi" "dian" (the three characters of the word for testpoint),     *)
(* "di" and "ge", and the two sentinel texts are NO_INPUT and NO_OUTPUT.   *)
(* File contents are atomic strings.                                       *)
(***************************************************************************)
EXTENDS Integers, Sequences, FiniteSets, TLC

VARIABLES
    disk,            \* the file system: path -> state of the file
    salt,            \* hash() of each directory string in this process
    persisted,       \* content of testpoints.json (a list of paths)
    testpoint_data,  \* self.testpoint_data, an insertion-ordered dict
    listbox,         \* self.testpoint_listbox, the displayed labels
    current_file,    \* self.current_file
    exported,        \* the mapping written to each export file
    last,            \* what the last handler did and reported to the user
    steps,           \* number of operations and file changes so far
    config_file,     \* config.json: what it holds and whether the program wrote it
    config,          \* ConfigManager.config, the dict in memory
    testpoints_json, \* what testpoints.json holds: a list (persisted) or else
    returned,        \* the value the last ConfigManager call returned
    font_size_var,   \* the text of the font size entry
    font_size        \* the size of the font the text widgets show

\* The font size controls of the window.
fontvars == <<font_size_var, font_size>>

\* The state of the ConfigManager besides the path list, and the controls
\* that depend on it.
cfgvars == <<config_file, config, testpoints_json, returned, fontvars>>

vars == <<disk, salt, persisted, testpoint_data, listbox,
          current_file, exported, last, steps, cfgvars>>

----------------------------------------------------------------------------
(* Bounds *)

MaxSteps == 3

MaxSelect == 2

----------------------------------------------------------------------------
(* Program constants *)

HashMod == 10000

NO_INPUT == "NO_INPUT"

NO_OUTPUT == "NO_OUTPUT"

\* Python's None, where a path is expected.
None == [dir |-> "", name |-> <<>>]

----------------------------------------------------------------------------
(* Characters and strings *)

Digits == <<"0", "1", "2", "3", "4", "5", "6", "7", "8", "9">>

IsDigit(c) == \E i \in 1..10 : Digits[i] = c

\* Unicode code point of each character the model uses (order of sorted()).
CodeTable ==
    ("." :> 46) @@ ("0" :> 48) @@ ("1" :> 49) @@ ("2" :> 50) @@ ("3" :> 51) @@
    ("4" :> 52) @@ ("5" :> 53) @@ ("6" :> 54) @@ ("7" :> 55) @@ ("8" :> 56) @@
    ("9" :> 57) @@ ("P" :> 80) @@ ("_" :> 95) @@ ("a" :> 97) @@ ("e" :> 101) @@
    ("i" :> 105) @@
    ("j" :> 106) @@ ("n" :> 110) @@ ("o" :> 111) @@ ("p" :> 112) @@
    ("s" :> 115) @@ ("t" :> 116) @@ ("u" :> 117) @@ ("x" :> 120) @@
    ("ge" :> 20010) @@ ("dian" :> 28857) @@ ("ce" :> 27979) @@
    ("di" :> 31532) @@ ("shi" :> 35797)

Code(c) == CodeTable[c]

\* str.lower() of one character.
LowerChar(c) == IF c = "P" THEN "p" ELSE c

Lower(s) == [i \in 1..Len(s) |-> LowerChar(s[i])]

\* s < t in Python's string order.
RECURSIVE StrLess(_, _)
StrLess(s, t) ==
    IF t = <<>> THEN FALSE
    ELSE IF s = <<>> THEN TRUE
    ELSE IF Code(Head(s)) /= Code(Head(t)) THEN Code(Head(s)) < Code(Head(t))
    ELSE StrLess(Tail(s), Tail(t))

\* sorted(S) for a set of strings.
RECURSIVE Sorted(_)
Sorted(S) ==
    IF S = {} THEN <<>>
    ELSE LET m == CHOOSE x \in S : \A y \in S \ {x} : StrLess(x, y)
         IN  <<m>> \o Sorted(S \ {m})

\* str(n) for n >= 0.
RECURSIVE ToStr(_)
ToStr(n) ==
    IF n < 10 THEN <<Digits[n + 1]>>
    ELSE ToStr(n \div 10) \o <<Digits[(n % 10) + 1]>>

Abs(n) == IF n < 0 THEN 0 - n ELSE n

\* s ends with suffix, ignoring case (the `$` of a re.IGNORECASE pattern).
EndsWithCI(s, suffix) ==
    /\ Len(s) >= Len(suffix)
    /\ Lower(SubSeq(s, Len(s) - Len(suffix) + 1, Len(s))) = suffix

DropLast(s, n) == SubSeq(s, 1, Len(s) - n)

\* Index of the last "." of s, 0 when there is none.
LastDot(s) ==
    IF \E i \in 1..Len(s) : s[i] = "."
    THEN CHOOSE i \in 1..Len(s) :
            /\ s[i] = "."
            /\ \A j \in (i + 1)..Len(s) : s[j] /= "."
    ELSE 0

\* os.path.splitext of a name without directory separators: the extension
\* starts at the last dot, unless only dots come before it.
split_at(s, d) ==
    IF d > 0 /\ \E i \in 1..(d - 1) : s[i] /= "."
    THEN <<SubSeq(s, 1, d - 1), SubSeq(s, d, Len(s))>>
    ELSE <<s, <<>>>>

splitext(s) == split_at(s, LastDot(s))

----------------------------------------------------------------------------
(* Paths and the file system *)

Path(d, n) == [dir |-> d, name |-> n]

dirname(p) == p.dir

basename(p) == p.name

AXin == Path("a", <<"x", ".", "i", "n">>)

AXout == Path("a", <<"x", ".", "o", "u", "t">>)

AXans == Path("a", <<"x", ".", "a", "n", "s">>)

AXinput == Path("a", <<"x", ".", "i", "n", "p", "u", "t">>)

AXjson == Path("a", <<"x", ".", "j", "s", "o", "n">>)

BXout == Path("b", <<"x", ".", "o", "u", "t">>)

BXjson == Path("b", <<"x", ".", "j", "s", "o", "n">>)

AP1txt == Path("a", <<"P", "1", ".", "t", "x", "t">>)

\* A file name no other file of its directory shares the base name of.
BEjson == Path("b", <<"e", ".", "j", "s", "o", "n">>)

\* testpoints.json, in the configuration directory.
TestpointsJson ==
    Path("cfg", <<"t", "e", "s", "t", "p", "o", "i", "n", "t", "s", ".", "j", "s", "o", "n">>)

TextFiles == {AXin, AXout, AXans, BXout, AP1txt}

JsonFiles == {AXjson, BXjson, BEjson}

\* The paths the user gives to the save dialog of the export.
ExportTargets == {AXjson, BEjson}

Files == TextFiles \cup JsonFiles

\* What a text file holds when it can be read.
FileText ==
    (AXin :> "5") @@ (AXout :> "25") @@ (AXans :> "answer") @@
    (BXout :> "36") @@ (AP1txt :> "notes") @@ (AXinput :> "7")

\* A JSON value: an element is an object (a dict d) or something else.
Obj(d) == [isdict |-> TRUE, d |-> d]

NonObj == [isdict |-> FALSE]

TP == <<"ce", "shi", "dian">>

\* The documents a .json file of the model may hold.
JsonDoc(v) ==
    CASE v = "bad"    -> [kind |-> "bad"]
      [] v = "scalar" -> [kind |-> "scalar"]
      [] v = "tc"     -> [kind |-> "testCases",
                          items |-> << Obj([input |-> "i1", output |-> "o1"]),
                                       Obj([input |-> "i2"]) >>]
      [] v = "tcmix"  -> [kind |-> "testCases",
                          items |-> << Obj([input |-> "i1", output |-> "o1"]),
                                       NonObj >>]
      [] v = "dict"   -> [kind |-> "dict",
                          items |-> << << <<"t">>, Obj([input |-> "i3", output |-> "o3"]) >>,
                                       << <<"u">>, NonObj >> >>]
      [] v = "dictp"  -> [kind |-> "dict",
                          items |-> << << <<"t">>, Obj([input |-> "i9"]) >> >>]
      [] v = "list"   -> [kind |-> "list",
                          items |-> << Obj([name |-> <<"t">>, input |-> "i4", output |-> "o4"]),
                                       NonObj,
                                       Obj([output |-> "o5"]) >>]

\* dict.get(k, default)
DictGet(d, k, default) == IF k \in DOMAIN d THEN d[k] ELSE default

exists(d, p) == p \in DOMAIN d /\ d[p] /= "absent"

readable(d, p) == exists(d, p) /\ d[p] /= "unreadable"

\* os.listdir(dir): the names in the directory, in arbitrary order: sorted
\* by name, or the reverse when rev.
listdir(d, rev, dir) ==
    LET names == {p.name : p \in {q \in DOMAIN d : q.dir = dir /\ exists(d, q)}}
        s     == Sorted(names)
    IN  IF rev THEN [i \in 1..Len(s) |-> s[Len(s) + 1 - i]] ELSE s

\* abs(hash(dir)) % 10000 as a string
dir_hash(h, dir) == ToStr(Abs(h[dir]) % HashMod)

----------------------------------------------------------------------------
(* The insertion-ordered dict testpoint_data: a sequence of entries          *)
(* [name, input, output] with distinct names.                                *)

Entry(k, i, o) == [name |-> k, input |-> i, output |-> o]

Keys(td) == {td[i].name : i \in 1..Len(td)}

Has(td, k) == k \in Keys(td)

Get(td, k) == td[CHOOSE i \in 1..Len(td) : td[i].name = k]

\* td[k] = {'input': i, 'output': o}: replaces the value, keeps the position.
Put(td, k, i, o) ==
    IF Has(td, k)
    THEN [j \in 1..Len(td) |-> IF td[j].name = k THEN Entry(k, i, o) ELSE td[j]]
    ELSE Append(td, Entry(k, i, o))

\* td.update(new)
RECURSIVE Update(_, _)
Update(td, new) ==
    IF new = <<>> THEN td
    ELSE Update(Put(td, Head(new).name, Head(new).input, Head(new).output), Tail(new))

\* del td[k]
Del(td, k) == SelectSeq(td, LAMBDA e : e.name /= k)

\* The mapping as a function, for comparing dicts regardless of order.
AsMap(td) == [k \in Keys(td) |-> [input |-> Get(td, k).input, output |-> Get(td, k).output]]

----------------------------------------------------------------------------
(* ConfigManager: testpoints.json *)

\* A base name that keeps the extension.
base_with_ext(p) == basename(p)

base_of(p) == splitext(basename(p))[1]

\* The loop shared by save_testpoint_paths and save_testpoints_data: keep the
\* paths that exist, the first one of each base name.
RECURSIVE unique_paths(_, _, _)
unique_paths(d, paths, acc) ==
    IF paths = <<>> THEN acc
    ELSE LET q == Head(paths)
         IN  IF exists(d, q) /\ \A i \in 1..Len(acc) : base_of(acc[i]) /= base_of(q)
             THEN unique_paths(d, Tail(paths), Append(acc, q))
             ELSE unique_paths(d, Tail(paths), acc)

\* testpoints.json can be opened for writing.
writable(d) == d[TestpointsJson] /= "unwritable"

\* save_testpoint_paths: the content of testpoints.json after the call,
\* pers being its content before.  A write that raises leaves the file as it
\* is, and the function returns False.
save_testpoint_paths(d, pers, paths) ==
    IF writable(d) THEN unique_paths(d, paths, <<>>) ELSE pers

\* A load that returns every path of the list, on disk or not.
all_paths(d, pers) == pers

\* load_testpoint_paths: the paths of testpoints.json that exist (normpath
\* leaves the normalised paths of the model as they are).
load_testpoint_paths(d, pers) == SelectSeq(pers, LAMBDA q : exists(d, q))

InSeq(x, s) == \E i \in 1..Len(s) : s[i] = x

\* is_duplicate: some path of the list has the base name of p.
is_duplicate(p, paths) == \E i \in 1..Len(paths) : base_of(paths[i]) = base_of(p)

\* save_testpoints_data, from the paths it has loaded: the current file is
\* added when it exists and neither it nor its base name is in the list.
with_current_file(d, paths, cur) ==
    IF cur /= None /\ exists(d, cur) /\ ~InSeq(cur, paths) /\ ~is_duplicate(cur, paths)
    THEN Append(paths, cur)
    ELSE paths

\* save_testpoints_data: what it writes to testpoints.json.
save_testpoints_data(d, pers, cur) ==
    save_testpoint_paths(d, pers,
        unique_paths(d, with_current_file(d, load_testpoint_paths(d, pers), cur), <<>>))

----------------------------------------------------------------------------
(* The loaders.  Each returns [err, td]: whether it raised, and the dict     *)
(* as it left it.                                                            *)

Ok(td) == [err |-> FALSE, td |-> td]

Raised(td) == [err |-> TRUE, td |-> td]

US == <<"_">>

\* test_data.get(k) without a default: None, written "None", for a field
\* that is missing.
field_or_none(d, k) == DictGet(d, k, "None")

\* test_data.get('input', '') and test_data.get('output', '')
field_of(d, k) == DictGet(d, k, "")

\* The name of element i of a JSON list.
item_name(item, i) == DictGet(item.d, "name", TP \o US \o ToStr(i))

\* new_testpoints with the test cases numbered from 0.
RECURSIVE json_new_from_zero(_, _, _)
json_new_from_zero(doc, base_name, n) ==
    IF n = 0 THEN <<>>
    ELSE LET prev == json_new_from_zero(doc, base_name, n - 1)
             it   == doc.items[n]
         IN  CASE doc.kind = "testCases" ->
                    Put(prev, base_name \o US \o TP \o US \o ToStr(n - 1),
                        field_of(it.d, "input"), field_of(it.d, "output"))
               [] doc.kind = "dict" ->
                    IF it[2].isdict
                    THEN Put(prev, base_name \o US \o it[1],
                             field_of(it[2].d, "input"), field_of(it[2].d, "output"))
                    ELSE prev
               [] doc.kind = "list" ->
                    IF it.isdict
                    THEN Put(prev, base_name \o US \o item_name(it, n),
                             field_of(it.d, "input"), field_of(it.d, "output"))
                    ELSE prev

\* new_testpoints built by load_json_testpoints from the items 1..n of doc.
RECURSIVE json_new(_, _, _)
json_new(doc, base_name, n) ==
    IF n = 0 THEN <<>>
    ELSE LET prev == json_new(doc, base_name, n - 1)
             it   == doc.items[n]
         IN  CASE doc.kind = "testCases" ->
                    Put(prev, base_name \o US \o TP \o US \o ToStr(n),
                        field_of(it.d, "input"), field_of(it.d, "output"))
               [] doc.kind = "dict" ->
                    IF it[2].isdict
                    THEN Put(prev, base_name \o US \o it[1],
                             field_of(it[2].d, "input"), field_of(it[2].d, "output"))
                    ELSE prev
               [] doc.kind = "list" ->
                    IF it.isdict
                    THEN Put(prev, base_name \o US \o item_name(it, n),
                             field_of(it.d, "input"), field_of(it.d, "output"))
                    ELSE prev

\* An export that writes the inputs only.
export_inputs_only(td) ==
    [kind |-> "dict",
     items |-> [i \in 1..Len(td) |-> <<td[i].name, Obj([input |-> td[i].input])>>]]

\* The document export_testpoints_to_json writes for the dict td: an object
\* of one {input, output} object per name.
ExportDoc(td) ==
    [kind |-> "dict",
     items |-> [i \in 1..Len(td) |->
                   <<td[i].name, Obj([input |-> td[i].input, output |-> td[i].output])>>]]

TestCasesKey == <<"t", "e", "s", "t", "C", "a", "s", "e", "s">>

\* The document json.load reads back from an exported file: an object with a
\* key testCases is taken for the first shape, and the elements of its value
\* are then the keys of an object, which are no dicts.
exported_doc(doc) ==
    IF \E i \in 1..Len(doc.items) : doc.items[i][1] = TestCasesKey
    THEN [kind |-> "testCases", items |-> <<NonObj, NonObj>>]
    ELSE doc

\* json.load(f) of the file p.
json_load(d, p) ==
    IF d[p] = "export" THEN exported_doc(ExportDoc(exported[p])) ELSE JsonDoc(d[p])

load_json_testpoints(td, d, p) ==
    LET doc == json_load(d, p)
    IN  CASE doc.kind = "bad" -> Raised(td)
          [] doc.kind = "scalar" -> Ok(td)
          [] doc.kind = "testCases" ->
                \* test_case.get raises on an element that is no dict
                IF \E i \in 1..Len(doc.items) : ~doc.items[i].isdict
                THEN Raised(td)
                ELSE Ok(Update(td, json_new(doc, basename(p), Len(doc.items))))
          [] OTHER -> Ok(Update(td, json_new(doc, basename(p), Len(doc.items))))

is_input_name(n) == EndsWithCI(n, <<".", "i", "n">>) \/ EndsWithCI(n, <<".", "i", "n", "p", "u", "t">>)

is_output_name(n) ==
    \/ EndsWithCI(n, <<".", "o", "u", "t">>)
    \/ EndsWithCI(n, <<".", "a", "n", "s">>)
    \/ EndsWithCI(n, <<".", "o", "u", "t", "p", "u", "t">>)

\* re.sub(r'\.(in|input)$' or r'\.(out|ans|output)$', ext, file_path)
sub_ext(p, ext) ==
    LET n == basename(p)
        k == CHOOSE k \in 1..Len(n) :
                 /\ n[Len(n) - k + 1] = "."
                 /\ \A j \in (Len(n) - k + 2)..Len(n) : n[j] /= "."
    IN  Path(dirname(p), DropLast(n, k) \o ext)

unique_name_of(h, p) == dir_hash(h, dirname(p)) \o US \o base_of(p)

\* The record made of an input file and the output file found for it.
with_output(d, content, output_file) ==
    IF exists(d, output_file)
    THEN IF readable(d, output_file)
         THEN [err |-> FALSE, input |-> content, output |-> FileText[output_file]]
         ELSE [err |-> TRUE]
    ELSE [err |-> FALSE, input |-> content, output |-> NO_OUTPUT]

\* The record made of an output file and the input file found for it.
with_input(d, content, input_file) ==
    IF exists(d, input_file)
    THEN IF readable(d, input_file)
         THEN [err |-> FALSE, input |-> FileText[input_file], output |-> content]
         ELSE [err |-> TRUE]
    ELSE [err |-> FALSE, input |-> NO_INPUT, output |-> content]

\* A search that prefers the second candidate.
companion_second_first(d, first, second) == IF exists(d, second) THEN second ELSE first

\* The first of two candidate companions that exists, else the second.
companion(d, first, second) == IF exists(d, first) THEN first ELSE second

\* The record a plain-text file creates when its identifier is new.
text_new(d, p, content) ==
    IF is_input_name(basename(p))
    THEN with_output(d, content,
             companion(d, sub_ext(p, <<".", "o", "u", "t">>), sub_ext(p, <<".", "a", "n", "s">>)))
    ELSE IF is_output_name(basename(p))
    THEN with_input(d, content,
             companion(d, sub_ext(p, <<".", "i", "n">>), sub_ext(p, <<".", "i", "n", "p", "u", "t">>)))
    ELSE [err |-> FALSE, input |-> content, output |-> ""]

\* A patch that writes the field opposite to the one the extension names.
text_patch_swapped(td, e, n, content) ==
    IF is_output_name(n) THEN Put(td, e.name, content, e.output)
    ELSE Put(td, e.name, e.input, content)

\* A patch that rebuilds the record as if it were new, and so resets the
\* field the file does not supply.
text_patch_replace(td, e, n, content) ==
    IF is_output_name(n) THEN Put(td, e.name, NO_INPUT, content)
    ELSE Put(td, e.name, content, NO_OUTPUT)

\* The patch of an existing record e by a plain-text file named n.
text_patch(td, e, n, content) ==
    IF is_input_name(n) THEN Put(td, e.name, content, e.output)
    ELSE IF is_output_name(n) THEN Put(td, e.name, e.input, content)
    ELSE Put(td, e.name, content, e.output)

\* A loader that builds the new record and does not merge it.
text_add_nothing(td, unique_name, r) ==
    IF r.err THEN Raised(td) ELSE Ok(td)

\* new_testpoints of load_text_testpoints, added to the dict.
text_add(td, unique_name, r) ==
    IF r.err THEN Raised(td)
    ELSE Ok(Update(td, <<Entry(unique_name, r.input, r.output)>>))

\* load_text_testpoints once the file has been read.
text_load(td, d, p, unique_name, content) ==
    IF Has(td, unique_name)
    THEN Ok(text_patch(td, Get(td, unique_name), basename(p), content))
    ELSE text_add(td, unique_name, text_new(d, p, content))

load_text_testpoints(td, d, h, p) ==
    IF ~readable(d, p) THEN Raised(td)
    ELSE text_load(td, d, p, unique_name_of(h, p), FileText[p])

\* The last element of a non-empty list of names, as a path of dir_path.
last_of(dir_path, names) == Path(dir_path, names[Len(names)])

\* The record find_related_testpoints adds under unique_name, which is not
\* in the dict, from the last input file and the last output file.
related_new(td, d, unique_name, dir_path, input_files, output_files) ==
    IF input_files /= <<>>
    THEN IF ~readable(d, last_of(dir_path, input_files)) THEN Raised(td)
         ELSE IF output_files = <<>>
         THEN Ok(Update(td, <<Entry(unique_name,
                                    FileText[last_of(dir_path, input_files)], NO_OUTPUT)>>))
         ELSE IF ~readable(d, last_of(dir_path, output_files)) THEN Raised(td)
         ELSE Ok(Update(td, <<Entry(unique_name,
                                    FileText[last_of(dir_path, input_files)],
                                    FileText[last_of(dir_path, output_files)])>>))
    ELSE IF output_files /= <<>>
    THEN IF ~readable(d, last_of(dir_path, output_files)) THEN Raised(td)
         ELSE Ok(Update(td, <<Entry(unique_name, NO_INPUT,
                                    FileText[last_of(dir_path, output_files)])>>))
    ELSE Ok(td)

\* A discovery that writes its record whether the identifier is new or not.
related_overwrite(td, d, unique_name, dir_path, related) ==
    related_new(td, d, unique_name, dir_path,
                SelectSeq(related, is_input_name), SelectSeq(related, is_output_name))

\* find_related_testpoints from the related files, in listdir order.
related_load(td, d, unique_name, dir_path, related) ==
    IF Has(td, unique_name) THEN Ok(td)
    ELSE related_new(td, d, unique_name, dir_path,
                     SelectSeq(related, is_input_name), SelectSeq(related, is_output_name))

\* The files of the directory that have the base name of file_path.
related_files(files, current_file_name) ==
    SelectSeq(files, LAMBDA f : splitext(f)[1] = current_file_name)

\* A discovery that names its record by the base name alone.
find_related_by_base(td, d, rev, h, p) ==
    related_load(td, d, base_of(p), dirname(p),
                 related_files(listdir(d, rev, dirname(p)), base_of(p)))

\* find_related_testpoints.  Every related file has the base name of
\* file_path, so input_map and output_map hold at most that one key, mapped
\* to the last matching file in listdir order.
find_related_testpoints(td, d, rev, h, p) ==
    related_load(td, d, unique_name_of(h, p), dirname(p),
                 related_files(listdir(d, rev, dirname(p)), base_of(p)))

is_json(p) == Lower(splitext(basename(p))[2]) = <<".", "j", "s", "o", "n">>

\* After the loader: find_related_testpoints, unless the loader raised.
then_related(r, d, rev, h, p) ==
    IF r.err THEN r ELSE find_related_testpoints(r.td, d, rev, h, p)

\* The part load_testpoints and load_testpoint_without_popup share: the
\* loader chosen by the extension, then find_related_testpoints.
load_file(td, d, rev, h, p) ==
    IF is_json(p)
    THEN then_related(load_json_testpoints(td, d, p), d, rev, h, p)
    ELSE then_related(load_text_testpoints(td, d, h, p), d, rev, h, p)

----------------------------------------------------------------------------
(* Labels and the list box *)

\* The maximal run of digits of s that starts at index i.
RECURSIVE digit_run(_, _)
digit_run(s, i) ==
    IF i <= Len(s) /\ IsDigit(s[i]) THEN <<s[i]>> \o digit_run(s, i + 1) ELSE <<>>

\* The maximal run of digits that ends s.
RECURSIVE trailing_digits(_)
trailing_digits(s) ==
    IF s /= <<>> /\ IsDigit(s[Len(s)])
    THEN trailing_digits(DropLast(s, 1)) \o <<s[Len(s)]>>
    ELSE <<>>

\* The indices of base_name where the pattern P\d+ matches.
p_hits(base_name) ==
    {i \in 1..Len(base_name) : base_name[i] = "P" /\ digit_run(base_name, i + 1) /= <<>>}

Min(S) == CHOOSE i \in S : \A j \in S : i <= j

\* The label made of the P number and the trailing digits.
p_label(p_num, test) ==
    IF test /= <<>> THEN p_num \o <<"_", "di">> \o test \o <<"ge">> \o TP ELSE p_num

\* format_testpoint_name once the extension is removed.
format_base(base_name, hits) ==
    IF hits /= {}
    THEN p_label(<<"P">> \o digit_run(base_name, Min(hits) + 1), trailing_digits(base_name))
    ELSE base_name

format_hits(base_name) == format_base(base_name, p_hits(base_name))

format_testpoint_name(file_name) == format_hits(splitext(file_name)[1])

\* listbox.insert(END, label) for each name of the sequence names.
RECURSIVE insert_labels(_, _)
insert_labels(lb, names) ==
    IF names = <<>> THEN lb
    ELSE insert_labels(Append(lb, format_testpoint_name(Head(names))), Tail(names))

add_missing(lb, display_name) ==
    IF InSeq(display_name, lb) THEN lb ELSE Append(lb, display_name)

\* The same, skipping a label the list box already shows.
RECURSIVE insert_missing_labels(_, _)
insert_missing_labels(lb, names) ==
    IF names = <<>> THEN lb
    ELSE insert_missing_labels(add_missing(lb, format_testpoint_name(Head(names))),
                               Tail(names))

----------------------------------------------------------------------------
(* The handlers, as functions of the state they read *)

Outcome(td, lb, pers, new, result, stage) ==
    [td |-> td, listbox |-> lb, persisted |-> pers, new |-> new,
     result |-> result, stage |-> stage]

\* A load_testpoints that restores the dict when the load has raised.
loaded_rollback(td, lb, pers1, d, file_path, r, new_testpoints) ==
    IF r.err
    THEN Outcome(td, lb, pers1, {}, "error", "load")
    ELSE IF new_testpoints = {}
    THEN Outcome(r.td, lb, pers1, {}, "duplicate", "data")
    ELSE Outcome(r.td, insert_labels(lb, Sorted(new_testpoints)),
                 save_testpoints_data(d, pers1, file_path),
                 new_testpoints, "loaded", "done")

\* load_testpoints after the load: r is what the loaders returned, pers1 the
\* path list as written before the load.
loaded(td, lb, pers1, d, file_path, r, new_testpoints) ==
    IF r.err
    THEN Outcome(r.td, lb, pers1, new_testpoints, "error", "load")
    ELSE IF new_testpoints = {}
    THEN Outcome(r.td, lb, pers1, {}, "duplicate", "data")
    ELSE Outcome(r.td, insert_labels(lb, Sorted(new_testpoints)),
                 save_testpoints_data(d, pers1, file_path),
                 new_testpoints, "loaded", "done")

\* The names of every record of the dict after the load.
all_names(td, r) == Keys(r.td)

\* new_testpoints: the names that are in the dict after the load and were
\* not in current_data.
new_names(td, r) == Keys(r.td) \ Keys(td)

load_and_show(td, lb, pers1, d, file_path, r) ==
    loaded(td, lb, pers1, d, file_path, r, new_names(td, r))

\* The path list load_testpoints writes before it loads the file.
register(d, testpoint_paths, pers, file_path) ==
    IF is_duplicate(file_path, testpoint_paths) THEN pers
    ELSE save_testpoint_paths(d, pers, Append(testpoint_paths, file_path))

\* load_testpoints once it has read testpoints.json.
load_checked(td, lb, pers, d, rev, h, file_path, testpoint_paths) ==
    IF InSeq(file_path, testpoint_paths)
    THEN Outcome(td, lb, pers, {}, "duplicate", "path")
    ELSE load_and_show(td, lb, register(d, testpoint_paths, pers, file_path), d, file_path,
                       load_file(td, d, rev, h, file_path))

\* load_testpoints(file_path), called by select_file after it has set
\* current_file.  result is what the user is told: "duplicate" (the
\* information box), "error" (the error box) or "loaded".
load_testpoints(td, lb, pers, d, rev, h, file_path) ==
    load_checked(td, lb, pers, d, rev, h, file_path, load_testpoint_paths(d, pers))

\* The list box of load_testpoint_without_popup after the load.
shown(lb, r) ==
    IF r.err THEN [td |-> r.td, listbox |-> lb]
    ELSE [td |-> r.td, listbox |-> insert_missing_labels(lb, Sorted(Keys(r.td)))]

\* load_testpoint_without_popup(file_path): [td, listbox].
load_testpoint_without_popup(td, lb, d, rev, h, file_path) ==
    shown(lb, load_file(td, d, rev, h, file_path))

with_cur(r, file_path) == [td |-> r.td, listbox |-> r.listbox, cur |-> file_path]

\* A loop that gives up at the first path that is missing or fails to load.
RECURSIVE load_saved_until_failure(_, _, _, _, _)
load_saved_until_failure(st, d, rev, h, paths) ==
    IF paths = <<>> THEN st
    ELSE IF exists(d, Head(paths)) /\ ~load_file(st.td, d, rev, h, Head(paths)).err
    THEN load_saved_until_failure(
             with_cur(load_testpoint_without_popup(st.td, st.listbox, d, rev, h, Head(paths)),
                      Head(paths)),
             d, rev, h, Tail(paths))
    ELSE st

\* The loop of load_saved_testpoints over the paths: [td, listbox, cur].
RECURSIVE load_saved_loop(_, _, _, _, _)
load_saved_loop(st, d, rev, h, paths) ==
    IF paths = <<>> THEN st
    ELSE IF exists(d, Head(paths))
    THEN load_saved_loop(
             with_cur(load_testpoint_without_popup(st.td, st.listbox, d, rev, h, Head(paths)),
                      Head(paths)),
             d, rev, h, Tail(paths))
    ELSE load_saved_loop(st, d, rev, h, Tail(paths))

\* load_saved_testpoints, run by __init__ on an empty dict and list box.
load_saved_testpoints(cur, pers, d, rev, h) ==
    load_saved_loop([td |-> <<>>, listbox |-> <<>>, cur |-> cur], d, rev, h,
                    load_testpoint_paths(d, pers))

\* The indices of a selection, largest first.
RECURSIVE descending(_)
descending(sel) ==
    IF sel = {} THEN <<>>
    ELSE LET m == CHOOSE x \in sel : \A y \in sel : y <= x
         IN  <<m>> \o descending(sel \ {m})

MinOrZero(hits) == IF hits = {} THEN 0 ELSE Min(hits)

\* The position in td, in insertion order, of the first name whose label is
\* display_name; 0 when there is none.
first_match(td, display_name) ==
    MinOrZero({i \in 1..Len(td) : format_testpoint_name(td[i].name) = display_name})

\* The loop of delete_selected_testpoints over the selected indices:
\* [td, to_delete].
delete_one(st, index, hit) ==
    IF hit = 0 THEN st
    ELSE [td |-> Del(st.td, st.td[hit].name), to_delete |-> Append(st.to_delete, index)]

RECURSIVE delete_loop(_, _, _)
delete_loop(st, lb, indices) ==
    IF indices = <<>> THEN st
    ELSE delete_loop(delete_one(st, Head(indices), first_match(st.td, lb[Head(indices)])),
                     lb, Tail(indices))

\* listbox.delete(index) for each index of to_delete, in that order.
remove_at(lb, index) ==
    IF index <= Len(lb)
    THEN SubSeq(lb, 1, index - 1) \o SubSeq(lb, index + 1, Len(lb))
    ELSE lb

RECURSIVE listbox_delete(_, _)
listbox_delete(lb, to_delete) ==
    IF to_delete = <<>> THEN lb
    ELSE listbox_delete(remove_at(lb, Head(to_delete)), Tail(to_delete))

\* delete_selected_testpoints once the user has confirmed: [td, listbox].
deleted(lb, r) == [td |-> r.td, listbox |-> listbox_delete(lb, r.to_delete)]

delete_selected_testpoints(td, lb, selection) ==
    deleted(lb, delete_loop([td |-> td, to_delete |-> <<>>], lb, descending(selection)))

----------------------------------------------------------------------------
(* The state machine *)

\* hash() of the two directory strings in one process: Python salts str
\* hashes per process.  The first process of a run has InitSalt; a later
\* one may have the other salt, where the two directories share a bucket.
InitSalt == ("a" :> 12345) @@ ("b" :> 3)

Salts == { InitSalt, ("a" :> 7) @@ ("b" :> (0 - 10007)) }

\* The files at the start: a/x.in, b/x.out and a/P1.txt always; either any
\* of a/x.out and a/x.ans and no JSON file, or both and the JSON files.
TextStates == { <<o, a>> : o \in {"ok", "absent"}, a \in {"ok", "absent"} }

JsonStates ==
    { <<"bad", "absent">>, <<"tc", "absent">>, <<"tcmix", "absent">>,
      <<"dict", "dictp">>, <<"list", "dictp">> }

DiskOf(t, j) ==
    (AXin :> "ok") @@ (AXout :> t[1]) @@ (AXans :> t[2]) @@ (BXout :> "ok") @@
    (AP1txt :> "ok") @@ (AXjson :> j[1]) @@ (BXjson :> j[2]) @@
    (BEjson :> "absent") @@ (TestpointsJson :> "ok")

InitDisks ==
    { DiskOf(t, <<"absent", "absent">>) : t \in TextStates } \cup
    { DiskOf(<<"ok", "ok">>, j) : j \in JsonStates }

\* The changes made to the files from outside while the program runs.
DiskChanges ==
    { <<AXout, "ok">>, <<AXin, "absent">>, <<AXin, "unreadable">>,
      <<TestpointsJson, "unwritable">> }

\* What the last operation did; new holds the identifiers an import has
\* added or a delete has removed; only_loaded records that every operation so
\* far was an import that ended with the success message.
Report(op, path, result, stage, new, rep, sel) ==
    [op |-> op, path |-> path, result |-> result, stage |-> stage,
     new |-> new, rep |-> rep, sel |-> sel,
     only_loaded |-> last.only_loaded /\ op = "import" /\ result = "loaded"]

InitReport ==
    [op |-> "init", path |-> None, result |-> "", stage |-> "",
     new |-> {}, rep |-> FALSE, sel |-> {}, only_loaded |-> TRUE]

\* ---- ConfigManager: config.json ----

SideBySide == "side_by_side"

\* The dict load_config returns when config.json is missing or unusable.
DefaultConfig ==
    [font_size |-> 10, view_mode |-> SideBySide,
     font_family |-> "Microsoft YaHei UI", sash_position |-> 250]

\* d[k] = v on a Python dict.
DictSet(d, k, v) == (k :> v) @@ d

\* config.json: kind is "missing", "garbage" (no JSON), "number" or "list"
\* (JSON, but no object) or "dict"; doc is the object of a "dict" file.
ConfigFile(kind, doc, written) == [kind |-> kind, doc |-> doc, written |-> written]

\* load_config: the parsed object with view_mode forced; the item assignment
\* raises on a JSON value that is no object, and json.load on garbage.
load_config(f) ==
    IF f.kind = "dict" THEN DictSet(f.doc, "view_mode", SideBySide) ELSE DefaultConfig

\* save_config: json.dump of the dict in memory; ok is FALSE when the file
\* cannot be opened for writing, which leaves it as it was.
save_config(f, c, ok) == IF ok THEN ConfigFile("dict", c, TRUE) ELSE f

set_font_size(c, size) == DictSet(c, "font_size", size)

set_font_family(c, family) == DictSet(c, "font_family", family)

set_sash_position(c, position) == DictSet(c, "sash_position", position)

\* A setter that stores the mode it is given.
set_view_mode_as_given(c, mode) == DictSet(c, "view_mode", mode)

set_view_mode(c, mode) == DictSet(c, "view_mode", SideBySide)

get_view_mode(c) == SideBySide

get_font_size(c) == DictGet(c, "font_size", 10)

\* str(n) of an int
str(n) == IF n < 0 THEN <<"-">> \o ToStr(0 - n) ELSE ToStr(n)

\* The value of a non-empty sequence of digits.
RECURSIVE digits_value(_)
digits_value(s) ==
    IF s = <<>> THEN 0
    ELSE 10 * digits_value(DropLast(s, 1))
             + (CHOOSE v \in 0..9 : Digits[v + 1] = s[Len(s)])

AllDigits(s) == s /= <<>> /\ \A i \in 1..Len(s) : IsDigit(s[i])

\* int(text): [ok, value]; ok is FALSE where int raises ValueError.  The
\* texts of the model hold no blanks and no underscores.
int(s) ==
    IF AllDigits(s) THEN [ok |-> TRUE, value |-> digits_value(s)]
    ELSE IF s /= <<>> /\ s[1] \in {"-", "+"} /\ AllDigits(Tail(s))
    THEN [ok |-> TRUE,
          value |-> IF s[1] = "-" THEN 0 - digits_value(Tail(s)) ELSE digits_value(Tail(s))]
    ELSE [ok |-> FALSE, value |-> 0]

MinFontSize == 6

MaxFontSize == 30

\* The new size increase_font_size and decrease_font_size compute from the
\* int of the entry text, or the same size when the limit stops them.
increased(current_size) ==
    IF current_size < MaxFontSize THEN current_size + 1 ELSE current_size

decreased(current_size) ==
    IF current_size > MinFontSize THEN current_size - 1 ELSE current_size

\* on_font_size_change accepts the size.
in_range(new_size) == MinFontSize <= new_size /\ new_size <= MaxFontSize

\* ---- ConfigManager: the raw content of testpoints.json ----

\* What testpoints.json can hold: no file, an empty file, text that is no
\* JSON, a JSON number, or a JSON list (whose items are in persisted).
PathFileKinds == {"missing", "empty", "garbage", "number", "list"}

\* load_testpoint_paths on the raw file: only a list is iterated; the other
\* contents return [] at the exists test, at the empty test or in an except.
read_testpoint_paths(kind, d, items) ==
    IF kind = "list" THEN load_testpoint_paths(d, items) ELSE <<>>

Init ==
    /\ disk \in InitDisks
    /\ salt = InitSalt
    /\ persisted = <<>>
    /\ testpoint_data = <<>>
    /\ listbox = <<>>
    /\ current_file = None
    /\ exported = [p \in ExportTargets |-> <<>>]
    /\ last = InitReport
    /\ steps = 0
    /\ config_file = ConfigFile("missing", <<>>, FALSE)
    /\ config = load_config(config_file)
    /\ testpoints_json = "list"
    /\ returned = <<>>
    /\ font_size = get_font_size(config)
    /\ font_size_var = str(font_size)

\* The state after load_testpoints(p) has returned r.
Imported(p, r) ==
    /\ testpoint_data' = r.td
    /\ listbox' = r.listbox
    /\ persisted' = r.persisted
    /\ last' = Report("import", p, r.result, r.stage, r.new,
                      last.op = "import" /\ last.path = p, {})

\* The state after delete_selected_testpoints has changed the dict and the
\* list box to r.
Deleted(r) ==
    /\ testpoint_data' = r.td
    /\ listbox' = r.listbox

\* The state of the new process after load_saved_testpoints has returned r.
Restarted(h, saved, r) ==
    /\ salt' = h
    /\ persisted' = saved
    /\ testpoint_data' = r.td
    /\ listbox' = r.listbox
    /\ current_file' = r.cur

\* on_closing writes the path list; the new process, of salt h, rebuilds
\* from the files d it finds.
Reopened(h, rev, saved, d) ==
    /\ Restarted(h, saved, load_saved_testpoints(None, saved, d, rev, h))
    /\ disk' = d

\* The files when the program starts again: as they were when it was closed,
\* or with one file removed in between.
DisksAfter(d) ==
    {d} \cup {[d EXCEPT ![c[1]] = "absent"] : c \in {x \in DiskChanges : x[2] = "absent"}}

\* select_file: the user picks an existing file in the dialog.
SelectFile(p) ==
    /\ steps < MaxSteps
    /\ exists(disk, p)
    /\ \E rev \in BOOLEAN :
          Imported(p, load_testpoints(testpoint_data, listbox, persisted, disk, rev, salt, p))
    /\ current_file' = p
    /\ steps' = steps + 1
    /\ UNCHANGED <<disk, salt, exported, cfgvars>>

\* The selections of the list box the model tries: 1..MaxSelect entries.
Selections(lb) ==
    {sel \in SUBSET (1..Len(lb)) : sel /= {} /\ Cardinality(sel) <= MaxSelect}

\* delete_selected_testpoints with a non-empty selection, confirmed.
DeleteSelected(selection) ==
    /\ steps < MaxSteps
    /\ Deleted(delete_selected_testpoints(testpoint_data, listbox, selection))
    /\ persisted' = save_testpoints_data(disk, persisted, current_file)
    /\ last' = Report("delete", None, "deleted", "",
                      Keys(testpoint_data) \ Keys(testpoint_data'), FALSE, selection)
    /\ steps' = steps + 1
    /\ UNCHANGED <<disk, salt, current_file, exported, cfgvars>>

\* The window is closed (on_closing) and the program started again
\* (__init__, load_saved_testpoints) in a new process.
Restart ==
    /\ steps < MaxSteps
    /\ \E h \in Salts, rev \in BOOLEAN, d \in DisksAfter(disk) :
          Reopened(h, rev, save_testpoints_data(disk, persisted, current_file), d)
    /\ last' = Report("restart", None, "", "", {}, FALSE, {})
    /\ steps' = steps + 1
    /\ UNCHANGED <<exported, cfgvars>>

\* Outside the program a text file is created, removed or made unreadable.
DiskOp(p, s) ==
    /\ steps < MaxSteps
    /\ disk[p] /= s
    /\ disk' = [disk EXCEPT ![p] = s]
    /\ last' = Report("disk", p, "", "", {}, FALSE, {})
    /\ steps' = steps + 1
    /\ UNCHANGED <<salt, persisted, testpoint_data, listbox, current_file, exported, cfgvars>>

\* The file export_testpoints_to_json leaves at p: the dump of the dict, or
\* the file as it was when the write raised.
Written(p, ok) ==
    IF ok
    THEN /\ disk' = [disk EXCEPT ![p] = "export"]
         /\ exported' = [exported EXCEPT ![p] = testpoint_data]
         /\ last' = Report("export", p, "exported", "", {}, FALSE, {})
    ELSE /\ UNCHANGED <<disk, exported>>
         /\ last' = Report("export", p, "error", "", {}, FALSE, {})

\* export_testpoints_to_json: the dict is not empty and the user has chosen
\* the path p.
Export(p) ==
    /\ steps < MaxSteps
    /\ testpoint_data /= <<>>
    /\ \E ok \in BOOLEAN : Written(p, ok)
    /\ steps' = steps + 1
    /\ UNCHANGED <<salt, persisted, testpoint_data, listbox, current_file, cfgvars>>

Next ==
    \/ \E p \in Files : SelectFile(p)
    \/ \E sel \in Selections(listbox) : DeleteSelected(sel)
    \/ Restart
    \/ \E c \in DiskChanges : DiskOp(c[1], c[2])
    \/ \E p \in ExportTargets : Export(p)

Spec == Init /\ [][Next]_vars

----------------------------------------------------------------------------
(* The ConfigManager alone, over every content of its two files *)

FontSizes == {10, 12}

FontFamilies == {"Microsoft YaHei UI", "Consolas"}

SashPositions == {250, 300}

ViewModes == {"tab", SideBySide}

\* Objects a config.json not written by the program may hold.
ForeignDocs ==
    { <<>>,
      [view_mode |-> "tab"],
      [view_mode |-> "tab", font_size |-> 12] }

ForeignConfigFiles ==
    {ConfigFile(k, <<>>, FALSE) : k \in {"missing", "garbage", "number", "list"}}
        \cup {ConfigFile("dict", doc, FALSE) : doc \in ForeignDocs}

\* Items of a testpoints.json list: paths that exist or not.
PathLists == {<<>>, <<AXin>>, <<AXout, AP1txt>>}

\* The text files beside them: a/x.out exists or not.
ConfigDisks == {DiskOf(<<o, "absent">>, <<"absent", "absent">>) : o \in {"ok", "absent"}}

\* A method of the ConfigManager that leaves everything but the config alone.
ConfigCall(op) ==
    /\ last' = Report(op, None, "", "", {}, FALSE, {})
    /\ UNCHANGED <<disk, salt, persisted, testpoint_data, listbox,
                   current_file, exported, steps, testpoints_json, fontvars>>

ConfigInit ==
    /\ disk \in ConfigDisks
    /\ salt = InitSalt
    /\ testpoints_json \in PathFileKinds
    /\ persisted \in IF testpoints_json = "list" THEN PathLists ELSE {<<>>}
    /\ testpoint_data = <<>>
    /\ listbox = <<>>
    /\ current_file = None
    /\ exported = [p \in ExportTargets |-> <<>>]
    /\ last = InitReport
    /\ steps = 0
    /\ config_file \in ForeignConfigFiles
    /\ config = load_config(config_file)
    /\ returned = <<>>
    /\ font_size = get_font_size(config)
    /\ font_size_var = str(font_size)

\* ConfigManager(): a new process loads config.json.
LoadConfig ==
    /\ config' = load_config(config_file)
    /\ returned' = config'
    /\ UNCHANGED config_file
    /\ ConfigCall("load_config")

\* A setter: the dict in memory is changed, then save_config is tried.
Set(op, c) ==
    /\ config' = c
    /\ \E ok \in BOOLEAN : config_file' = save_config(config_file, c, ok)
    /\ returned' = <<>>
    /\ ConfigCall(op)

SetFontSize(size) == Set("set_font_size", set_font_size(config, size))

SetFontFamily(family) == Set("set_font_family", set_font_family(config, family))

SetSashPosition(position) == Set("set_sash_position", set_sash_position(config, position))

SetViewMode(mode) == Set("set_view_mode", set_view_mode(config, mode))

GetViewMode ==
    /\ returned' = get_view_mode(config)
    /\ UNCHANGED <<config, config_file>>
    /\ ConfigCall("get_view_mode")

\* config.json is replaced outside the program.
EditConfigFile(f) ==
    /\ config_file /= f
    /\ config_file' = f
    /\ UNCHANGED <<config, returned>>
    /\ ConfigCall("edit")

LoadTestpointPaths ==
    /\ returned' = read_testpoint_paths(testpoints_json, disk, persisted)
    /\ UNCHANGED <<config, config_file>>
    /\ ConfigCall("load_testpoint_paths")

ConfigNext ==
    \/ LoadConfig
    \/ \E size \in FontSizes : SetFontSize(size)
    \/ \E family \in FontFamilies : SetFontFamily(family)
    \/ \E position \in SashPositions : SetSashPosition(position)
    \/ \E mode \in ViewModes : SetViewMode(mode)
    \/ GetViewMode
    \/ \E f \in ForeignConfigFiles : EditConfigFile(f)
    \/ LoadTestpointPaths

ConfigSpec == ConfigInit /\ [][ConfigNext]_vars

----------------------------------------------------------------------------
(* format_testpoint_name alone, over many identifiers *)

LabelAlphabet == {"P", "1", "2", "_", "t", "."}

MaxNameLen == 3

\* The identifiers of the examples.
ExampleNames ==
    { <<"P", "1", "0", "0", "1", "_", "t", "e", "s", "t", "3">>,
      <<"p", "l", "a", "i", "n", "_", "c", "a", "s", "e">>,
      <<"P", "1", "0", "0", "1">>,
      <<"P", "1", "0", "0", "1", ".", "i", "n">> }

LabelNames ==
    UNION {[1..n -> LabelAlphabet] : n \in 1..MaxNameLen} \cup ExampleNames

FormatInit ==
    /\ testpoint_data \in {<<Entry(n, "", "")>> : n \in LabelNames}
    /\ listbox = <<>>
    /\ disk \in ConfigDisks
    /\ salt = InitSalt
    /\ persisted = <<>>
    /\ current_file = None
    /\ exported = [p \in ExportTargets |-> <<>>]
    /\ last = InitReport
    /\ steps = 0
    /\ config_file = ConfigFile("missing", <<>>, FALSE)
    /\ config = load_config(config_file)
    /\ testpoints_json = "list"
    /\ returned = <<>>
    /\ font_size = get_font_size(config)
    /\ font_size_var = str(font_size)

\* The list box is filled with the label of every record.
ShowLabels ==
    /\ listbox = <<>>
    /\ listbox' = insert_labels(<<>>, [i \in 1..Len(testpoint_data) |-> testpoint_data[i].name])
    /\ last' = Report("labels", None, "", "", {}, FALSE, {})
    /\ UNCHANGED <<disk, salt, persisted, testpoint_data, current_file,
                   exported, steps, cfgvars>>

FormatNext == ShowLabels

FormatSpec == FormatInit /\ [][FormatNext]_vars

----------------------------------------------------------------------------
(* Imports of plain-text files beside every combination of companions *)

PairFiles == {AXin, AXinput, AXout, AXans, AP1txt}

\* a/x.in, a/x.input, a/x.out and a/x.ans exist or not; no JSON file.
PairDisks ==
    { (AXinput :> s[1]) @@ [DiskOf(<<s[3], s[4]>>, <<"absent", "absent">>) EXCEPT ![AXin] = s[2]] :
          s \in [1..4 -> {"ok", "absent"}] }

PairInit ==
    /\ disk \in PairDisks
    /\ salt = InitSalt
    /\ persisted = <<>>
    /\ testpoint_data = <<>>
    /\ listbox = <<>>
    /\ current_file = None
    /\ exported = [p \in ExportTargets |-> <<>>]
    /\ last = InitReport
    /\ steps = 0
    /\ config_file = ConfigFile("missing", <<>>, FALSE)
    /\ config = load_config(config_file)
    /\ testpoints_json = "list"
    /\ returned = <<>>
    /\ font_size = get_font_size(config)
    /\ font_size_var = str(font_size)

PairNext == \E p \in PairFiles : SelectFile(p)

PairSpec == PairInit /\ [][PairNext]_vars

----------------------------------------------------------------------------
(* The font size controls *)

\* The sizes config.json may hold when the program starts.
PersistedFontSizes == {MinFontSize, 10, MaxFontSize}

\* What the user may type into the entry.
EntryTexts ==
    { <<>>, <<"a">>, <<"4">>, <<"6">>, <<"1", "2">>, <<"3", "0">>, <<"3", "2">>, <<"-", "1">> }

FontInit ==
    /\ disk \in ConfigDisks
    /\ salt = InitSalt
    /\ persisted = <<>>
    /\ testpoint_data = <<>>
    /\ listbox = <<>>
    /\ current_file = None
    /\ exported = [p \in ExportTargets |-> <<>>]
    /\ last = InitReport
    /\ steps = 0
    /\ config_file \in {ConfigFile("dict", set_font_size(DefaultConfig, n), TRUE) :
                            n \in PersistedFontSizes}
    /\ config = load_config(config_file)
    /\ testpoints_json = "list"
    /\ returned = <<>>
    /\ font_size = get_font_size(config)
    /\ font_size_var = str(font_size)

\* A handler of the font controls: nothing else changes.
FontCall(op) ==
    /\ last' = Report(op, None, "", "", {}, FALSE, {})
    /\ UNCHANGED <<disk, salt, persisted, testpoint_data, listbox,
                   current_file, exported, steps, testpoints_json, returned>>

\* update_font_size(new_size), then config_manager.set_font_size(new_size).
Resize(new_size) ==
    /\ font_size_var' = str(new_size)
    /\ font_size' = new_size
    /\ config' = set_font_size(config, new_size)
    /\ \E ok \in BOOLEAN : config_file' = save_config(config_file, config', ok)

NoResize == UNCHANGED <<font_size_var, font_size, config, config_file>>

\* increase_font_size / decrease_font_size: r is the int of the entry text,
\* new_size the size the limit test gives.
Step(r, new_size) ==
    IF r.ok /\ new_size /= r.value THEN Resize(new_size) ELSE NoResize

IncreaseFontSize ==
    /\ Step(int(font_size_var), increased(int(font_size_var).value))
    /\ FontCall("increase_font_size")

DecreaseFontSize ==
    /\ Step(int(font_size_var), decreased(int(font_size_var).value))
    /\ FontCall("decrease_font_size")

\* on_mouse_wheel with Control held: delta > 0 increases, else decreases.
MouseWheel(up) ==
    /\ IF up
       THEN Step(int(font_size_var), increased(int(font_size_var).value))
       ELSE Step(int(font_size_var), decreased(int(font_size_var).value))
    /\ FontCall("on_mouse_wheel")

\* on_font_size_change: Return in the entry.
Commit(r) ==
    IF r.ok /\ in_range(r.value)
    THEN Resize(r.value)
    ELSE /\ font_size_var' = str(get_font_size(config))
         /\ UNCHANGED <<font_size, config, config_file>>

OnFontSizeChange ==
    /\ Commit(int(font_size_var))
    /\ FontCall("on_font_size_change")

\* The user edits the text of the entry.
EditEntry(text) ==
    /\ font_size_var /= text
    /\ font_size_var' = text
    /\ UNCHANGED <<font_size, config, config_file>>
    /\ FontCall("edit_entry")

FontNext ==
    \/ IncreaseFontSize
    \/ DecreaseFontSize
    \/ \E up \in BOOLEAN : MouseWheel(up)
    \/ OnFontSizeChange
    \/ \E text \in EntryTexts : EditEntry(text)

FontSpec == FontInit /\ [][FontNext]_vars

----------------------------------------------------------------------------
(* The claims *)

\* The base name of a path as the specification defines it: the file name
\* without its extension.
StemOf(p) == splitext(p.name)[1]

\* The test of load_testpoints on the list it has read from testpoints.json.
Registered(p) == InSeq(p, load_testpoint_paths(disk, persisted))

\* A path other than p, of the base name of p, is in the list and on disk.
SameBaseRegistered(p) ==
    \E i \in 1..Len(persisted) :
        /\ persisted[i] /= p
        /\ StemOf(persisted[i]) = StemOf(p)
        /\ exists(disk, persisted[i])

ImportStep == last'.op = "import"

\* C1: an import that fails leaves the mapping and the persisted path list
\* exactly as they were before the call.
C1_FailedImportChangesNothing ==
    [][(ImportStep /\ last'.result = "error")
          => (testpoint_data' = testpoint_data /\ persisted' = persisted)]_vars

\* C2: an import of a path whose base name is already registered under
\* another path is rejected: "duplicate" is reported, and the mapping and the
\* path list are unchanged.
C2_SameBaseRejected ==
    [][(ImportStep /\ SameBaseRegistered(last'.path))
          => /\ last'.result = "duplicate"
             /\ testpoint_data' = testpoint_data
             /\ persisted' = persisted]_vars

\* C3: importing the path that was imported by the operation just before
\* adds no identifier and leaves the mapping unchanged.
C3_ReimportIdempotent ==
    [][(ImportStep /\ last'.rep)
          => (last'.new = {} /\ testpoint_data' = testpoint_data)]_vars

\* C3 witness: a file was imported twice in a row, and the second import ran
\* the loaders again (its path had not been registered).
C3_Witness ==
    /\ last.op = "import"
    /\ last.rep
    /\ last.stage = "data"
    /\ testpoint_data /= <<>>

Fields == {"input", "output"}

\* The fields the elements of a JSON document supply for the identifier k.
JsonFields(doc, base_name, k) ==
    IF doc.kind \notin {"testCases", "dict", "list"} THEN {}
    ELSE UNION { CASE doc.kind = "testCases" ->
                        IF doc.items[i].isdict
                           /\ base_name \o US \o TP \o US \o ToStr(i) = k
                        THEN DOMAIN doc.items[i].d ELSE {}
                   [] doc.kind = "dict" ->
                        IF doc.items[i][2].isdict
                           /\ base_name \o US \o doc.items[i][1] = k
                        THEN DOMAIN doc.items[i][2].d ELSE {}
                   [] doc.kind = "list" ->
                        IF doc.items[i].isdict
                           /\ base_name \o US \o item_name(doc.items[i], i) = k
                        THEN DOMAIN doc.items[i].d ELSE {}
                 : i \in 1..Len(doc.items) } \cap Fields

\* The field a plain-text file supplies, by its extension.
TextField(p) == IF is_output_name(basename(p)) THEN "output" ELSE "input"

\* The fields the file p explicitly supplies for the identifier k.
Supplied(p, k) ==
    IF is_json(p) THEN JsonFields(json_load(disk, p), basename(p), k)
    ELSE IF unique_name_of(salt, p) = k THEN {TextField(p)}
    ELSE {}

\* C4: an import overwrites, in the records that exist, only the fields the
\* imported file explicitly supplies for that identifier; every other field
\* and every other record keeps its value.
C4_OnlySuppliedFieldsOverwritten ==
    [][ImportStep
          => \A k \in Keys(testpoint_data) :
                 /\ Has(testpoint_data', k)
                 /\ \A f \in Fields \ Supplied(last'.path, k) :
                        Get(testpoint_data', k)[f] = Get(testpoint_data, k)[f]]_vars

\* A plain-text file with an input or output extension whose identifier is
\* in the mapping.
PatchCase(p) ==
    /\ ~is_json(p)
    /\ is_input_name(basename(p)) \/ is_output_name(basename(p))
    /\ Has(testpoint_data, unique_name_of(salt, p))

OtherField(f) == IF f = "input" THEN "output" ELSE "input"

\* C5: the import of an input or output file whose identifier exists adds no
\* entry, leaves every other record and the other field of the record as
\* they were, and - when load_testpoints gets to read the file - sets the
\* field of the extension to the content of the file.
C5_PatchChangesOneField ==
    [][(ImportStep /\ PatchCase(last'.path))
          => LET p == last'.path
                 k == unique_name_of(salt, p)
             IN  /\ Keys(testpoint_data') = Keys(testpoint_data)
                 /\ \A j \in Keys(testpoint_data) \ {k} :
                        Get(testpoint_data', j) = Get(testpoint_data, j)
                 /\ Get(testpoint_data', k)[OtherField(TextField(p))]
                        = Get(testpoint_data, k)[OtherField(TextField(p))]
                 /\ (~Registered(p) /\ readable(disk, p))
                        => Get(testpoint_data', k)[TextField(p)] = FileText[p]]_vars

\* C5 witness: the directories a and b hash alike, b/x.out has created the
\* record with the input sentinel, and the import of a/x.in has patched its
\* input and kept its output.
C5_Witness ==
    /\ last.op = "import"
    /\ last.path = AXin
    /\ last.stage = "data"
    /\ unique_name_of(salt, AXin) = unique_name_of(salt, BXout)
    /\ Has(testpoint_data, unique_name_of(salt, AXin))
    /\ Get(testpoint_data, unique_name_of(salt, AXin)).input = FileText[AXin]
    /\ Get(testpoint_data, unique_name_of(salt, AXin)).output = FileText[BXout]

\* import_path of each path of a list in turn, from the store st.
RECURSIVE ImportAll(_, _, _, _, _)
ImportAll(st, paths, d, rev, h) ==
    IF paths = <<>> THEN st
    ELSE ImportAll(load_testpoints(st.td, st.listbox, st.persisted, d, rev, h, Head(paths)),
                   Tail(paths), d, rev, h)

EmptyStore == Outcome(<<>>, <<>>, <<>>, {}, "", "")

\* C6: after every restart, for the persisted path list and the files the
\* new process has found, load_saved_testpoints builds the same mapping as
\* load_testpoints called on the still-existing paths of the list, in list
\* order, from an empty store (same process, same directory listing order).
C6_RebuildIsSequentialImport ==
    last.op = "restart" =>
        \A rev \in BOOLEAN :
            AsMap(load_saved_testpoints(None, persisted, disk, rev, salt).td)
                = AsMap(ImportAll(EmptyStore, load_testpoint_paths(disk, persisted),
                                  disk, rev, salt).td)

\* C6 witness: the program has restarted with two paths in testpoints.json
\* and has rebuilt at least two records from them.
C6_Witness ==
    /\ last.op = "restart"
    /\ Len(persisted) = 2
    /\ Len(testpoint_data) >= 2

\* C7: the persisted path list holds no path twice and no two paths of the
\* same base name (file name without extension).
C7_OnePathPerBaseName ==
    \A i, j \in 1..Len(persisted) :
        i /= j => /\ persisted[i] /= persisted[j]
                  /\ StemOf(persisted[i]) /= StemOf(persisted[j])

\* C7 witness: testpoints.json holds two paths, and the import of a third
\* file, of the base name of one of them, has just been loaded.
C7_Witness ==
    /\ Len(persisted) = 2
    /\ last.op = "import"
    /\ last.result = "loaded"
    /\ ~InSeq(last.path, persisted)
    /\ \E i \in 1..Len(persisted) : StemOf(persisted[i]) = StemOf(last.path)

\* The texts a field can hold: the content of a file, a value of a JSON
\* document, the empty string or a sentinel.
Texts ==
    {FileText[f] : f \in TextFiles}
        \cup {"i1", "o1", "i2", "i3", "o3", "i4", "o4", "o5", "i9"}
        \cup {"", NO_INPUT, NO_OUTPUT}

\* C8: every record of the mapping has an input and an output, each of them
\* a text (content, the empty string or a sentinel).
C8_BothFieldsPresent ==
    \A i \in 1..Len(testpoint_data) :
        /\ DOMAIN testpoint_data[i] = {"name", "input", "output"}
        /\ testpoint_data[i].input \in Texts
        /\ testpoint_data[i].output \in Texts

\* C8 witness: a JSON element without an output has been imported and its
\* record holds the empty string.
C8_Witness ==
    /\ last.op = "import"
    /\ is_json(last.path)
    /\ \E i \in 1..Len(testpoint_data) :
           /\ testpoint_data[i].name \in last.new
           /\ testpoint_data[i].input = "i2"
           /\ testpoint_data[i].output = ""

Ext_in == <<".", "i", "n">>

Ext_out == <<".", "o", "u", "t">>

\* The record of the identifier of p after the step is the only new one and
\* holds the input i and the output o.
Produces(p, i, o) ==
    LET k == unique_name_of(salt, p)
    IN  /\ Keys(testpoint_data') = Keys(testpoint_data) \cup {k}
        /\ Has(testpoint_data', k)
        /\ Get(testpoint_data', k).input = i
        /\ Get(testpoint_data', k).output = o

\* p is x.in beside a readable x.out, or x.out beside a readable x.in, both
\* readable, and the mapping has no record of the identifier of p.
PairCase(p, ext, other) ==
    /\ ~is_json(p)
    /\ EndsWithCI(basename(p), ext)
    /\ readable(disk, p)
    /\ readable(disk, sub_ext(p, other))
    /\ ~Has(testpoint_data, unique_name_of(salt, p))

\* C9: the import of x.in, when the mapping has no record for it and x.out
\* exists, produces exactly one record, of the contents of x.in and x.out;
\* and the same for the import of x.out when x.in exists.
C9_CompanionPairing ==
    [][ImportStep
          => LET p == last'.path
             IN  /\ PairCase(p, Ext_in, Ext_out)
                      => Produces(p, FileText[p], FileText[sub_ext(p, Ext_out)])
                 /\ PairCase(p, Ext_out, Ext_in)
                      => Produces(p, FileText[sub_ext(p, Ext_in)], FileText[p])]_vars

\* No file of the directory of p has the name of p with one of the extensions.
NoSibling(p, exts) == \A e \in exts : ~exists(disk, sub_ext(p, e))

\* C10: the import of a readable input file with no .out or .ans sibling is
\* no error and leaves a record whose output is the output sentinel; the
\* import of a readable output file with no .in or .input sibling is no
\* error and leaves a record whose input is the input sentinel.
C10_MissingCompanionSentinel ==
    [][ImportStep
          => LET p == last'.path
                 k == unique_name_of(salt, p)
             IN  /\ (/\ ~is_json(p) /\ is_input_name(basename(p)) /\ readable(disk, p)
                     /\ NoSibling(p, {Ext_out, <<".", "a", "n", "s">>}))
                      => /\ last'.result /= "error"
                         /\ Has(testpoint_data', k)
                         /\ Get(testpoint_data', k).output = NO_OUTPUT
                 /\ (/\ ~is_json(p) /\ is_output_name(basename(p)) /\ readable(disk, p)
                     /\ NoSibling(p, {Ext_in, <<".", "i", "n", "p", "u", "t">>}))
                      => /\ last'.result /= "error"
                         /\ Has(testpoint_data', k)
                         /\ Get(testpoint_data', k).input = NO_INPUT]_vars

\* The identifier a JSON file p gives to the element named k.
Prefixed(p, k) == basename(p) \o US \o k

\* import_path of p into an empty store: load_testpoints with an empty dict,
\* an empty list box and an empty testpoints.json.
FreshImport(p, rev) == load_testpoints(<<>>, <<>>, <<>>, disk, rev, salt, p)

\* Every record of M is in td under its prefixed identifier, with its texts.
Reproduced(M, td, p) ==
    \A i \in 1..Len(M) :
        /\ Has(td, Prefixed(p, M[i].name))
        /\ Get(td, Prefixed(p, M[i].name)).input = M[i].input
        /\ Get(td, Prefixed(p, M[i].name)).output = M[i].output

PrefixedKeys(M, p) == {Prefixed(p, M[i].name) : i \in 1..Len(M)}

JustExported == last.op = "export" /\ last.result = "exported"

\* C11 as stated: the import of a file just exported, into an empty store,
\* yields exactly the records of the exported mapping, under the prefixed
\* identifiers.
C11_RoundTripExact ==
    JustExported =>
        \A rev \in BOOLEAN :
            /\ Reproduced(exported[last.path], FreshImport(last.path, rev).td, last.path)
            /\ Keys(FreshImport(last.path, rev).td)
                   = PrefixedKeys(exported[last.path], last.path)

\* C11 amended: the import yields the records of the exported mapping under
\* the prefixed identifiers, and besides them at most the one record that
\* find_related_testpoints makes of the input and output files that share
\* the base name and the directory of the exported file.
C11_RoundTripUpToDiscovery ==
    JustExported =>
        \A rev \in BOOLEAN :
            /\ Reproduced(exported[last.path], FreshImport(last.path, rev).td, last.path)
            /\ Keys(FreshImport(last.path, rev).td)
                   \ PrefixedKeys(exported[last.path], last.path)
                   \subseteq {unique_name_of(salt, last.path)}

\* C11 witness: a mapping of two records or more has been exported to b/e.json,
\* and its import into an empty store has loaded as many.
C11_Witness ==
    /\ JustExported
    /\ last.path = BEjson
    /\ Len(testpoint_data) >= 2
    /\ exported[BEjson] = testpoint_data
    /\ Len(FreshImport(BEjson, FALSE).td) = Len(testpoint_data)

LinesOfLastImport ==
    /\ last.op = "import"
    /\ last.result = "loaded"
    /\ last.new = Keys(testpoint_data)
    /\ Len(listbox) = Cardinality(last.new)

\* The identifiers the lines of a selection were inserted for.
Picked(sel) == {Sorted(last.new)[i] : i \in sel}

\* C13: a delete removes from the mapping exactly the records of the
\* selected lines and leaves every other record unchanged.
C13_DeleteRemovesSelected ==
    [][(last'.op = "delete" /\ LinesOfLastImport)
          => /\ Keys(testpoint_data') = Keys(testpoint_data) \ Picked(last'.sel)
             /\ \A k \in Keys(testpoint_data') :
                    Get(testpoint_data', k) = Get(testpoint_data, k)]_vars

Shapes == {"testCases", "dict", "list"}

\* Element i of a JSON document of one of the three shapes is an object.
IsObject(doc, i) ==
    IF doc.kind = "dict" THEN doc.items[i][2].isdict ELSE doc.items[i].isdict

\* The identifier of the object that is element i of the document of p.
ElementId(doc, p, i) ==
    CASE doc.kind = "testCases" -> Prefixed(p, TP \o US \o ToStr(i))
      [] doc.kind = "dict" -> Prefixed(p, doc.items[i][1])
      [] doc.kind = "list" -> Prefixed(p, item_name(doc.items[i], i))

\* The identifiers of the well-formed elements of the JSON file p.
WellFormedIds(p) ==
    IF json_load(disk, p).kind \in Shapes
    THEN {ElementId(json_load(disk, p), p, i) :
              i \in {j \in 1..Len(json_load(disk, p).items) : IsObject(json_load(disk, p), j)}}
    ELSE {}

\* C14: when a JSON file of any of the three shapes is imported, an element
\* that is no object is skipped and every well-formed element of the file
\* has its record in the mapping after the import.
C14_MalformedElementSkipped ==
    [][(ImportStep /\ is_json(last'.path) /\ ~Registered(last'.path))
          => \A k \in WellFormedIds(last'.path) : Has(testpoint_data', k)]_vars

\* The JSON file p is an object with a testCases array of objects.
TestCasesOfObjects(p) ==
    /\ is_json(p)
    /\ json_load(disk, p).kind = "testCases"
    /\ \A i \in 1..Len(json_load(disk, p).items) : json_load(disk, p).items[i].isdict

\* The value of the key of an element, the empty string when it has none.
KeyOrEmpty(d, k) == IF k \in DOMAIN d THEN d[k] ELSE ""

\* The records of the n test cases of p are in td, with their texts.
TestCaseRecords(td, p) ==
    \A i \in 1..Len(json_load(disk, p).items) :
        /\ Has(td, Prefixed(p, TP \o US \o ToStr(i)))
        /\ Get(td, Prefixed(p, TP \o US \o ToStr(i))).input
               = KeyOrEmpty(json_load(disk, p).items[i].d, "input")
        /\ Get(td, Prefixed(p, TP \o US \o ToStr(i))).output
               = KeyOrEmpty(json_load(disk, p).items[i].d, "output")

TestCaseIds(p) ==
    {Prefixed(p, TP \o US \o ToStr(i)) : i \in 1..Len(json_load(disk, p).items)}

\* C15 as stated: the import of an object with a testCases array of n objects
\* yields the n records of the test cases, and no other record.
C15_TestCasesExact ==
    [][(ImportStep /\ TestCasesOfObjects(last'.path))
          => /\ TestCaseRecords(testpoint_data', last'.path)
             /\ Keys(testpoint_data') \ Keys(testpoint_data)
                    \subseteq TestCaseIds(last'.path)]_vars

\* C15 amended: an import of such a file that load_testpoints carries out
\* (the path is not in testpoints.json yet) leaves the n records of the test
\* cases in the mapping, named by the base name and the 1-based index, with
\* the texts of the keys or the empty string; the only other record it can
\* add is the one find_related_testpoints makes of the files that share the
\* base name and the directory of the JSON file.
C15_TestCasesUpToDiscovery ==
    [][(ImportStep /\ TestCasesOfObjects(last'.path) /\ ~Registered(last'.path))
          => /\ TestCaseRecords(testpoint_data', last'.path)
             /\ Keys(testpoint_data') \ Keys(testpoint_data)
                    \subseteq TestCaseIds(last'.path)
                              \cup {unique_name_of(salt, last'.path)}]_vars

\* C15 witness: a/x.json with two test cases, the second without an output,
\* has been imported and both records are new.
C15_Witness ==
    /\ last.op = "import"
    /\ last.path = AXjson
    /\ disk[AXjson] = "tc"
    /\ TestCaseIds(AXjson) \subseteq last.new
    /\ Cardinality(TestCaseIds(AXjson)) = 2
    /\ Get(testpoint_data, Prefixed(AXjson, TP \o US \o ToStr(2))).output = ""

\* load_testpoints(p) calls save_testpoint_paths while testpoints.json cannot
\* be written: p is neither in the list nor of the base name of a path of it.
WriteFails(p) ==
    /\ ~writable(disk)
    /\ ~Registered(p)
    /\ ~is_duplicate(p, load_testpoint_paths(disk, persisted))

\* C16: when the write of the path list fails during an import, the user is
\* shown the failure, and the records of the import are in the mapping.
C16_WriteFailureReported ==
    [][(ImportStep /\ WriteFails(last'.path))
          => /\ last'.result = "error"
             /\ last'.new \subseteq Keys(testpoint_data')]_vars

\* The records the file q gives when it is loaded alone into an empty dict.
LoadedAlone(q, rev) == load_file(<<>>, disk, rev, salt, q).td

\* The paths of testpoints.json that exist.
ExistingPaths == {persisted[i] : i \in {j \in 1..Len(persisted) : exists(disk, persisted[j])}}

\* C17: after a restart the mapping holds, for every path of the list that
\* exists, the records that the load of this path alone gives (all of them
\* when it loads, those merged before the failure when it fails), and no
\* other record: a missing path adds nothing, and a path that fails takes
\* nothing away from the others.
C17_RebuildIsolatesFailures ==
    last.op = "restart" =>
        \E rev \in BOOLEAN :
            /\ Keys(testpoint_data) = UNION {Keys(LoadedAlone(q, rev)) : q \in ExistingPaths}
            /\ \A q \in ExistingPaths :
                   \A k \in Keys(LoadedAlone(q, rev)) :
                       Get(testpoint_data, k) = Get(LoadedAlone(q, rev), k)

\* C17 witness: the first path of the list is missing, unreadable or
\* malformed, and the restart has loaded the record of the second.
C17_Witness ==
    /\ last.op = "restart"
    /\ Len(persisted) = 2
    /\ \/ ~readable(disk, persisted[1])
       \/ load_file(<<>>, disk, FALSE, salt, persisted[1]).err
    /\ readable(disk, persisted[2])
    /\ Keys(LoadedAlone(persisted[2], FALSE)) /= {}
    /\ Keys(LoadedAlone(persisted[2], FALSE)) \subseteq Keys(testpoint_data)

\* C18: load_testpoint_paths returns the empty list when testpoints.json is
\* missing, empty or no JSON, and every path it returns exists on disk.
C18_LoadPathsTolerant ==
    last.op = "load_testpoint_paths" =>
        /\ testpoints_json \in {"missing", "empty", "garbage"} => returned = <<>>
        /\ \A i \in 1..Len(returned) : exists(disk, returned[i])

\* C18 witness: the call returned a list out of a file that also names a
\* path that is not on disk.
C18_Witness ==
    /\ last.op = "load_testpoint_paths"
    /\ testpoints_json = "list"
    /\ \E i \in 1..Len(persisted) : ~exists(disk, persisted[i])
    /\ returned /= <<>>

\* C19: the dict in memory holds view_mode 'side_by_side', so does every
\* config.json the program has written, and get_view_mode returns it.
C19_ViewModeForced ==
    /\ "view_mode" \in DOMAIN config
    /\ config["view_mode"] = SideBySide
    /\ config_file.written =>
           /\ config_file.kind = "dict"
           /\ "view_mode" \in DOMAIN config_file.doc
           /\ config_file.doc["view_mode"] = SideBySide
    /\ get_view_mode(config) = SideBySide
    /\ last.op = "get_view_mode" => returned = SideBySide

\* C19 witness: the dict in memory came from a config.json that lacks keys
\* of the program's own, and set_view_mode has written the file.
C19_Witness ==
    /\ last.op = "set_view_mode"
    /\ config_file.written
    /\ "font_size" \in DOMAIN config /\ config["font_size"] = 12
    /\ "font_family" \notin DOMAIN config

\* The text is P<digits> and nothing else.
IsPNumber(s) ==
    /\ Len(s) >= 2
    /\ s[1] = "P"
    /\ \A i \in 2..Len(s) : IsDigit(s[i])

\* The text contains P<digits>.
HasPNumber(s) == \E i \in 1..Len(s) : s[i] = "P" /\ i < Len(s) /\ IsDigit(s[i + 1])

\* The first P<digits> of a text that contains one.
FirstPNumber(s) ==
    <<"P">> \o digit_run(s, 1 + Min({i \in 1..Len(s) : s[i] = "P" /\ i < Len(s) /\ IsDigit(s[i + 1])}))

\* The label the statement gives to the text left when the extension is gone.
StatedLabel(s) ==
    IF IsPNumber(s) THEN s
    ELSE IF HasPNumber(s) /\ IsDigit(s[Len(s)])
    THEN FirstPNumber(s) \o <<"_", "di">> \o trailing_digits(s) \o <<"ge">> \o TP
    ELSE s

\* C20: the label shown for an identifier is P<digits>_di<n>ge<testpoint> when
\* the text without extension contains P<digits> and ends in the digits n,
\* P<digits> when the text is P<digits> alone, and the text itself otherwise.
C20_FormatLabel ==
    listbox /= <<>> =>
        listbox[1] = StatedLabel(splitext(testpoint_data[1].name)[1])

\* The plain-text paths of the list the new process rebuilds from.
RebuiltTextPaths ==
    {q \in TextFiles : InSeq(q, load_testpoint_paths(disk', persisted'))}

\* C21: a plain-text path that is imported again by the process started at a
\* restart gets the identifier it had in the process before.
C21_IdentifierStable ==
    [][last'.op = "restart" =>
          \A q \in RebuiltTextPaths :
              unique_name_of(salt', q) = unique_name_of(salt, q)]_vars

\* What the loader chosen by the extension of p returns, before
\* find_related_testpoints runs.
PrimaryStep(p) ==
    IF is_json(p) THEN load_json_testpoints(testpoint_data, disk, p)
    ELSE load_text_testpoints(testpoint_data, disk, salt, p)

\* An import that has run the loader of its file.
LoaderRan == ImportStep /\ last'.stage /= "path"

\* C22: every record the mapping holds when find_related_testpoints starts
\* (the records from before the import and those of the loader) is in the
\* mapping, with the same input and output, when the import ends.
C22_DiscoveryOnlyAdds ==
    [][LoaderRan =>
          \A k \in Keys(PrimaryStep(last'.path).td) :
              /\ Has(testpoint_data', k)
              /\ Get(testpoint_data', k) = Get(PrimaryStep(last'.path).td, k)]_vars

\* C22 witness: the import of a JSON file into a mapping that held a record
\* has added the records of the file and, by discovery, the record of the
\* text files beside it.
C22_Witness ==
    /\ last.op = "import"
    /\ is_json(last.path)
    /\ unique_name_of(salt, last.path) \in last.new
    /\ Cardinality(last.new) >= 2
    /\ Keys(testpoint_data) \ last.new /= {}

\* The plain-text files of base name x in the directory a.
AXTexts == {AXin, AXout, AXans}

\* The identifier is one that load_json_testpoints makes.
IsJsonKey(k) ==
    \E p \in JsonFiles :
        /\ Len(k) > Len(basename(p))
        /\ SubSeq(k, 1, Len(basename(p)) + 1) = basename(p) \o US

\* The record holds the content of a file of AXTexts.
HoldsAXText(e) ==
    \/ e.input = FileText[AXin]
    \/ e.output \in {FileText[AXout], FileText[AXans]}

\* The records made of the files of AXTexts by the plain-text import and by
\* discovery.
AXRecords ==
    {k \in Keys(testpoint_data) : ~IsJsonKey(k) /\ HoldsAXText(Get(testpoint_data, k))}

\* C23: the mapping never holds two records made of the plain-text files of
\* one base name and directory, and after an import of one of them that
\* ran the loader without error it holds exactly one, under the identifier
\* of the imported path.
C23_OneRecordPerBaseAndDir ==
    /\ Cardinality(AXRecords) <= 1
    /\ (/\ last.op = "import"
        /\ last.path \in AXTexts
        /\ last.stage /= "path"
        /\ last.result /= "error")
           => AXRecords = {unique_name_of(salt, last.path)}

\* C23 witness: a/x.ans has been imported after another file of the base
\* name, and has patched the one record.
C23_Witness ==
    /\ last.op = "import"
    /\ last.path = AXans
    /\ last.stage = "data"
    /\ AXRecords = {unique_name_of(salt, AXans)}
    /\ Get(testpoint_data, unique_name_of(salt, AXans)).input = FileText[AXin]
    /\ Get(testpoint_data, unique_name_of(salt, AXans)).output = FileText[AXans]

Ext_ans == <<".", "a", "n", "s">>

Ext_input == <<".", "i", "n", "p", "u", "t">>

\* The content of the first of the two siblings of p that exists, else the
\* sentinel.
FirstSibling(p, ext1, ext2, sentinel) ==
    IF exists(disk, sub_ext(p, ext1)) THEN FileText[sub_ext(p, ext1)]
    ELSE IF exists(disk, sub_ext(p, ext2)) THEN FileText[sub_ext(p, ext2)]
    ELSE sentinel

\* The import of the plain-text file p has created the record of p.
Created(p) ==
    /\ ImportStep
    /\ last'.path = p
    /\ ~Has(testpoint_data, unique_name_of(salt, p))
    /\ Has(testpoint_data', unique_name_of(salt, p))

\* C24: a record created from an input file has the content of the .out
\* sibling as output, of the .ans sibling only when there is no .out; a
\* record created from an output file has the content of the .in sibling as
\* input, of the .input sibling only when there is no .in; a record created
\* from a file of another extension has the file as input and '' as output.
C24_CompanionSearchOrder ==
    [][\A p \in PairFiles :
          Created(p) =>
              LET e == Get(testpoint_data', unique_name_of(salt, p))
              IN  IF is_input_name(basename(p))
                  THEN /\ e.input = FileText[p]
                       /\ e.output = FirstSibling(p, Ext_out, Ext_ans, NO_OUTPUT)
                  ELSE IF is_output_name(basename(p))
                  THEN /\ e.output = FileText[p]
                       /\ e.input = FirstSibling(p, Ext_in, Ext_input, NO_INPUT)
                  ELSE /\ e.input = FileText[p]
                       /\ e.output = ""]_vars

\* C24 witness: a/x.out has been imported into a mapping without its record
\* while a/x.in and a/x.input both exist, and the new record has the content
\* of a/x.in.
C24_Witness ==
    /\ last.op = "import"
    /\ last.path = AXout
    /\ unique_name_of(salt, AXout) \in last.new
    /\ exists(disk, AXin) /\ exists(disk, AXinput)
    /\ Get(testpoint_data, unique_name_of(salt, AXout)).input = FileText[AXin]

\* A restart of a process in which every operation was a successful import,
\* with the files as they were.
RestartAfterImports ==
    /\ last'.op = "restart"
    /\ last.op = "import"
    /\ last.only_loaded
    /\ disk' = disk

\* C25: when every operation of the process was a successful import, a
\* restart that finds the files unchanged rebuilds a mapping with the
\* identifiers and the contents of the mapping held before it.
C25_RebuildEqualsMemory ==
    [][RestartAfterImports => AsMap(testpoint_data') = AsMap(testpoint_data)]_vars

\* C26: after a delete followed by a restart that finds the files unchanged,
\* none of the identifiers the delete removed is in the mapping.
C26_DeletedStaysDeleted ==
    [][(/\ last'.op = "restart"
        /\ last.op = "delete"
        /\ disk' = disk)
           => last.new \cap Keys(testpoint_data') = {}]_vars

\* C27: every record is found again from its label: the first name of the
\* mapping whose label is the label of record i is the name of record i.
C27_LabelResolvesToRecord ==
    \A i \in 1..Len(testpoint_data) :
        first_match(testpoint_data, format_testpoint_name(testpoint_data[i].name)) = i

\* C28: after an import, a delete or a rebuild the list box has as many
\* entries as the mapping has records.
C28_ListMatchesMapping ==
    last.op \in {"import", "delete", "restart"} =>
        Len(listbox) = Cardinality(Keys(testpoint_data))

\* C29: in an import of a plain-text file whose loader did not raise, the
\* identifier of the file is in the mapping when find_related_testpoints
\* starts, and the mapping at the end of the import is the one the loader
\* left: discovery has added nothing.
C29_NoDiscoveryAfterText ==
    [][(LoaderRan /\ ~is_json(last'.path) /\ ~PrimaryStep(last'.path).err)
          => /\ Has(PrimaryStep(last'.path).td, unique_name_of(salt, last'.path))
             /\ testpoint_data' = PrimaryStep(last'.path).td]_vars

\* C29 witness: a/x.ans has been imported and has created its record while
\* a/x.in and a/x.out, which discovery would pair, are beside it.
C29_Witness ==
    /\ last.op = "import"
    /\ last.path = AXans
    /\ last.new = {unique_name_of(salt, AXans)}
    /\ readable(disk, AXin) /\ readable(disk, AXout)
    /\ Get(testpoint_data, unique_name_of(salt, AXans)).output = FileText[AXans]

\* C30: the font size applied to the widgets, the one in the config in
\* memory and the one in config.json stay within 6..30, and a committed
\* entry that is no number or is out of range leaves the persisted size as
\* it was.
C30_FontSizeInRange ==
    [][/\ in_range(font_size')
       /\ in_range(get_font_size(config'))
       /\ in_range(get_font_size(config_file'.doc))
       /\ (/\ last'.op = "on_font_size_change"
           /\ ~(int(font_size_var).ok /\ in_range(int(font_size_var).value)))
              => /\ config' = config
                 /\ config_file' = config_file]_vars

====
